---- MODULE Spec2Model ----
(***************************************************************************)
(* The generic action engine of openslides-backend: the create, update and *)
(* delete actions of action/generics.py, their dataset preparation, the    *)
(* cascade policy of delete and the assembly of write-request elements.    *)
(*                                                                         *)
(* Python values are tagged records ([t |-> "int", v |-> 3]) so that None, *)
(* an absent key, a falsy value and a value of the wrong type stay apart.  *)
(* An instance (a dict) is a function from its keys to values.             *)
(***************************************************************************)
EXTENDS Integers, Sequences, FiniteSets, TLC

VARIABLES
    db,                         \* the datastore: FQID -> stored object
    action,                     \* the action object: its class and model
    additional_write_requests,  \* side buffer of the delete action object
    result                      \* what the last performed action returned

vars == <<db, action, additional_write_requests, result>>

-----------------------------------------------------------------------------
(* Bounds of the model.                                                    *)

\* nested cascaded deletes are followed to this depth; one more is Python's
\* RecursionError
MaxDepth == 4
\* a delete action object accepts another batch while its side buffer holds
\* fewer elements than this
MaxBuffered == 2
\* the datastore handed out at most this many ids before a create batch
MaxReserved == 1
\* the largest id the datastore holds; reserve_id hands out the next ones
MaxStoredId == 2
\* the longest payload of a batch
MaxBatch == 2
\* the longest list of ids given to a sort
MaxNodes == 3

-----------------------------------------------------------------------------
(* Python values.                                                          *)

None == [t |-> "None"]
PyInt(n) == [t |-> "int", v |-> n]
PyStr(s) == [t |-> "str", v |-> s]
PyList(l) == [t |-> "list", v |-> l]
PyFqid(c, i) == [t |-> "fqid", v |-> <<c, i>>]

\* bool(value)
Truthy(val) ==
    CASE val.t = "None" -> FALSE
      [] val.t = "int" -> val.v # 0
      [] val.t = "str" -> val.v # ""
      [] val.t = "list" -> val.v # <<>>
      [] OTHER -> TRUE

\* isinstance(value, int)
IsInt(val) == val.t = "int"

Digit(d) ==
    CASE d = 0 -> "0" [] d = 1 -> "1" [] d = 2 -> "2" [] d = 3 -> "3"
      [] d = 4 -> "4" [] d = 5 -> "5" [] d = 6 -> "6" [] d = 7 -> "7"
      [] d = 8 -> "8" [] OTHER -> "9"

\* str(n) of a natural number
RECURSIVE ToStr(_)
ToStr(n) == IF n < 10 THEN Digit(n) ELSE ToStr(n \div 10) \o Digit(n % 10)

\* dict.get(key), dict.get(key, default), key in dict, dict[key] = value
Has(inst, k) == k \in DOMAIN inst
Get(inst, k) == IF k \in DOMAIN inst THEN inst[k] ELSE None
GetOr(inst, k, dflt) == IF k \in DOMAIN inst THEN inst[k] ELSE dflt
Put(inst, k, val) ==
    [x \in DOMAIN inst \cup {k} |-> IF x = k THEN val ELSE inst[x]]
EmptyDict == [x \in {} |-> None]

SeqToSet(s) == {s[i] : i \in 1..Len(s)}
InSeq(x, s) == \E i \in 1..Len(s) : s[i] = x
Without(s, x) == SelectSeq(s, LAMBDA y : y # x)

-----------------------------------------------------------------------------
(* The models: their fields in declaration order.                          *)

A == "fake_model_a"
B == "fake_model_b"
C == "fake_model_c"
D == "fake_model_d"

\* actions_map: the collections with a registered delete action
actions_map == {A, B, C}

SET_NULL == "SET_NULL"
PROTECT == "PROTECT"
CASCADE == "CASCADE"

\* a field that is no relation
Plain(name, default) ==
    [name |-> name, relation |-> FALSE, default |-> default, to |-> "",
     list |-> FALSE, on_delete |-> SET_NULL, structured_relation |-> <<>>,
     structured_tag |-> FALSE, related_name |-> <<"">>, generic |-> FALSE]

\* a relation field: its target collection, cardinality, policy and the
\* name of the reverse field on the target, split at its "$" placeholder
Rel(name, to, list, on_delete, related_name) ==
    [name |-> name, relation |-> TRUE, default |-> None, to |-> to,
     list |-> list, on_delete |-> on_delete, structured_relation |-> <<>>,
     structured_tag |-> FALSE, related_name |-> related_name,
     generic |-> FALSE]

FieldsA ==
    << Plain("title", None),
       Plain("text", PyStr("")),
       Plain("weight", PyInt(0)),
       Rel("c_id", C, FALSE, SET_NULL, <<"a_ids">>),
       Rel("b_ids", B, TRUE, CASCADE, <<"a_id">>),
       Rel("protected_c_ids", C, TRUE, PROTECT, <<"protector_a_id">>),
       [Rel("fake_model_b_$_ids", B, TRUE, CASCADE,
            <<"structured_relation_field">>) EXCEPT !.structured_tag = TRUE],
       [Rel("fake_model_c_$_ids", C, TRUE, PROTECT,
            <<"structured_relation_field">>) EXCEPT !.structured_tag = TRUE] >>

FieldsB ==
    << [Plain("meeting_id", None) EXCEPT !.to = "meeting"],
       Rel("a_id", A, FALSE, SET_NULL, <<"b_ids">>),
       Rel("c_ids", C, TRUE, CASCADE, <<"b_id">>),
       [Rel("structured_relation_field", A, FALSE, PROTECT,
            <<"fake_model_b_", "_ids">>)
           EXCEPT !.structured_relation = <<"meeting_id">>] >>

FieldsC ==
    << Rel("a_ids", A, TRUE, SET_NULL, <<"c_id">>),
       [Rel("content_object_id", "", FALSE, CASCADE, <<"c_content_ids">>)
           EXCEPT !.generic = TRUE],
       [Plain("foreign_key_field", None) EXCEPT !.to = B],
       [Rel("structured_relation_field", A, FALSE, CASCADE,
            <<"fake_model_c_", "_ids">>)
           EXCEPT !.structured_relation = <<"foreign_key_field", "meeting_id">>] >>

\* the fields of a motion comment section that sorting touches
FieldsSection ==
    << Plain("weight", None),
       [Plain("meeting_id", None) EXCEPT !.to = "meeting"] >>

\* model.get_fields()
get_fields(coll) ==
    CASE coll = A -> FieldsA [] coll = B -> FieldsB
      [] coll = "motion_comment_section" -> FieldsSection
      [] OTHER -> FieldsC

\* model.get_relation_fields()
get_relation_fields(coll) == SelectSeq(get_fields(coll), LAMBDA f : f.relation)

\* model.get_field(name)
get_field(coll, name) ==
    LET fs == get_fields(coll)
    IN  fs[CHOOSE i \in 1..Len(fs) : fs[i].name = name]

-----------------------------------------------------------------------------
(* Exceptions, the effect log, events and write-request elements.          *)

NoExc == [type |-> "", msg |-> "", arg |-> ""]
Exc(type, msg, arg) == [type |-> type, msg |-> msg, arg |-> arg]
Raised(r) == r.exc.type # ""

\* one entry of the effect log: a call to a collaborator made while an
\* action ran, at the nesting depth of the action that made it
Logged(e, fqid, fields, flag, depth) ==
    [e |-> e, fqid |-> fqid, fields |-> fields, flag |-> flag, depth |-> depth]

\* Event(type, fqid, fields)
Event(type, fqid, fields) == [type |-> type, fqid |-> fqid, fields |-> fields]

\* WriteRequestElement(events, information, user_id)
WriteRequestElement(events, information, user_id) ==
    [events |-> events, information |-> information, user_id |-> user_id]

\* information maps merged per FQID, the string lists concatenated
MergeInformation(i1, i2) ==
    [q \in DOMAIN i1 \cup DOMAIN i2 |->
        (IF q \in DOMAIN i1 THEN i1[q] ELSE <<>>)
            \o (IF q \in DOMAIN i2 THEN i2[q] ELSE <<>>)]

RECURSIVE MergeFrom(_, _, _)
MergeFrom(elements, k, acc) ==
    IF k > Len(elements) \/ Raised(acc) THEN acc
    ELSE LET el == elements[k]
         IN  IF acc.user_id # 0 /\ acc.user_id # el.user_id
             THEN [acc EXCEPT !.exc = Exc("ValueError", "different_users", "")]
             ELSE MergeFrom(elements, k + 1,
                     [acc EXCEPT
                        !.events = @ \o el.events,
                        !.information = MergeInformation(@, el.information),
                        !.user_id = el.user_id])

CheckedUser(acc) ==
    IF ~Raised(acc) /\ acc.user_id = 0
    THEN [acc EXCEPT !.exc = Exc("ValueError", "no_user", "")]
    ELSE acc

\* merge_write_request_elements(elements): one element, or ValueError when
\* the elements are of different users (user id 0 stands for "none yet")
merge_write_request_elements(elements) ==
    CheckedUser(MergeFrom(elements, 1,
                   [exc |-> NoExc, events |-> <<>>,
                    information |-> [q \in {} |-> <<>>], user_id |-> 0]))

-----------------------------------------------------------------------------
(* The datastore.                                                          *)

Exists(fqid) == fqid \in DOMAIN db

\* database.get(fqid, mapped_fields) of an existing object
DatabaseGet(fqid, mapped_fields) ==
    [k \in DOMAIN db[fqid] \cap SeqToSet(mapped_fields) |-> db[fqid][k]]

\* the ids a relation value names, as FQIDs of the target collection (a
\* generic relation value carries its collection itself)
TargetsOf(field, val) ==
    CASE val.t = "None" -> <<>>
      [] val.t = "list" -> [i \in 1..Len(val.v) |-> <<field.to, val.v[i]>>]
      [] val.t = "int" -> << <<field.to, val.v>> >>
      [] val.t = "fqid" -> <<val.v>>
      [] OTHER -> <<>>

-----------------------------------------------------------------------------
(* Relation resolution: the reverse-side mutations of one instance.        *)

\* "$".join(pieces): str.replace("$", sep) of a name split at "$"
RECURSIVE Join(_, _)
Join(pieces, sep) ==
    IF Len(pieces) = 1 THEN pieces[1]
    ELSE pieces[1] \o sep \o Join(Tail(pieces), sep)

\* the name of a templated field as declared, and rendered with a scoping
\* value: related_name.replace("$", "$" + str(m))
FieldName(pieces) == Join(pieces, "$")
\* the placeholder left as it is
RenderedNameUnscoped(pieces, m) == Join(pieces, "$")
RenderedName(pieces, m) == Join(pieces, "$" \o ToStr(m))

\* the scoping value of a structured relation: each segment of the path
\* names a field of the current object whose value is the id of the next
\* object; the value of the last segment is the scoping value
\* the value of the first segment taken for the scoping value
WalkPathFirstSegment(path, k, coll, obj) ==
    IF ~IsInt(Get(obj, path[k])) THEN [ok |-> FALSE, m |-> 0]
    ELSE [ok |-> TRUE, m |-> Get(obj, path[k]).v]

RECURSIVE WalkPath(_, _, _, _)
WalkPath(path, k, coll, obj) ==
    LET val == Get(obj, path[k])
    IN  IF ~IsInt(val) THEN [ok |-> FALSE, m |-> 0]
        ELSE IF k = Len(path) THEN [ok |-> TRUE, m |-> val.v]
        ELSE LET next == <<get_field(coll, path[k]).to, val.v>>
             IN  IF ~Exists(next) THEN [ok |-> FALSE, m |-> 0]
                 ELSE WalkPath(path, k + 1, next[1], db[next])

\* with the shortcut the walk starts at the given instance, else at the
\* stored object of the instance
search_structured_relation(coll, id, field, obj, shortcut) ==
    IF shortcut THEN WalkPath(field.structured_relation, 1, coll, obj)
    ELSE IF ~Exists(<<coll, id>>) THEN [ok |-> FALSE, m |-> 0]
    ELSE WalkPath(field.structured_relation, 1, coll, db[<<coll, id>>])

\* whether the reverse field of a relation holds a list
ReverseIsList(field, target) ==
    \/ field.structured_relation # <<>>
    \/ \E i \in 1..Len(get_fields(target[1])) :
          /\ get_fields(target[1])[i].name = FieldName(field.related_name)
          /\ get_fields(target[1])[i].list

Relation(fqfield, type, value, modified_element) ==
    [fqfield |-> fqfield, type |-> type, value |-> value,
     modified_element |-> modified_element]

\* the mutations on one target that gains (add) or loses (remove) id
TargetRelations(field, id, target, type, structured, m) ==
    LET name == IF structured THEN RenderedName(field.related_name, m)
                ELSE FieldName(field.related_name)
        stored == TargetsOf([to |-> ""], Get(db[target], name))
        ids == [i \in 1..Len(stored) |-> stored[i][2]]
        value ==
            IF ReverseIsList(field, target)
            THEN PyList(IF type = "add" THEN Append(ids, id)
                        ELSE Without(ids, id))
            ELSE IF type = "add" THEN PyInt(id) ELSE None
        index == FieldName(field.related_name)
        tags == GetOr(db[target], index, [t |-> "strlist", v |-> <<>>]).v
    IN  (IF structured
         THEN << Relation(<<target[1], target[2], index>>, type,
                          [t |-> "strlist",
                           v |-> IF type = "add" THEN Append(tags, ToStr(m))
                                 ELSE Without(tags, ToStr(m))],
                          PyStr(ToStr(m))) >>
         ELSE <<>>)
        \o << Relation(<<target[1], target[2], name>>, type, value, PyInt(id)) >>

RECURSIVE AllTargetRelations(_, _, _, _, _, _)
AllTargetRelations(field, id, targets, type, structured, m) ==
    IF targets = <<>> THEN <<>>
    ELSE TargetRelations(field, id, Head(targets), type, structured, m)
            \o AllTargetRelations(field, id, Tail(targets), type, structured, m)

\* the mutations of the targets gained and lost, or the error of a
\* structured path that cannot be walked or of a target that is not stored
Mutations(field, id, add, remove, sv) ==
    IF ~sv.ok
    THEN [exc |-> Exc("ActionException", "structured_path", field.name),
          relations |-> <<>>]
    ELSE IF \E x \in SeqToSet(add) \cup SeqToSet(remove) : ~Exists(x)
    THEN [exc |-> Exc("NotFound", "related", field.name), relations |-> <<>>]
    ELSE [exc |-> NoExc,
          relations |->
             AllTargetRelations(field, id, add, "add",
                                field.structured_relation # <<>>, sv.m)
             \o AllTargetRelations(field, id, remove, "remove",
                                   field.structured_relation # <<>>, sv.m)]

\* the targets the instance names against the targets stored so far
Diffs(field, id, targets, current, sv) ==
    Mutations(field, id,
              SelectSeq(targets, LAMBDA x : ~InSeq(x, current)),
              SelectSeq(current, LAMBDA x : ~InSeq(x, targets)), sv)

\* SingleRelationHandler(field, field_name, instance).perform()
SingleRelationHandler(coll, id, field, obj, shortcut) ==
    IF ~shortcut /\ ~Exists(<<coll, id>>)
    THEN [exc |-> Exc("NotFound", "object", coll), relations |-> <<>>]
    ELSE Diffs(field, id,
               TargetsOf(field, Get(obj, field.name)),
               IF shortcut THEN <<>>
               ELSE TargetsOf(field, Get(db[<<coll, id>>], field.name)),
               IF field.structured_relation # <<>>
               THEN search_structured_relation(coll, id, field, obj, shortcut)
               ELSE [ok |-> TRUE, m |-> 0])

\* dict.update: a later mutation of the same field replaces the earlier one
Upsert(relations, rel) ==
    IF \E i \in 1..Len(relations) : relations[i].fqfield = rel.fqfield
    THEN [i \in 1..Len(relations) |->
             IF relations[i].fqfield = rel.fqfield THEN rel ELSE relations[i]]
    ELSE Append(relations, rel)

RECURSIVE UpsertAll(_, _)
UpsertAll(relations, more) ==
    IF more = <<>> THEN relations
    ELSE UpsertAll(Upsert(relations, Head(more)), Tail(more))

Merged(acc, r) ==
    [exc |-> r.exc, relations |-> UpsertAll(acc.relations, r.relations)]

RECURSIVE RelationsFrom(_, _, _, _, _, _, _)
RelationsFrom(coll, id, obj, relation_fields, shortcut, k, acc) ==
    IF k > Len(relation_fields) \/ Raised(acc) THEN acc
    ELSE RelationsFrom(coll, id, obj, relation_fields, shortcut, k + 1,
            Merged(acc, SingleRelationHandler(coll, id, relation_fields[k],
                                              obj, shortcut)))

\* Action.get_relations(model, id, obj, relation_fields, shortcut)
get_relations(coll, id, obj, relation_fields, shortcut) ==
    RelationsFrom(coll, id, obj, relation_fields, shortcut, 1,
                  [exc |-> NoExc, relations |-> <<>>])

-----------------------------------------------------------------------------
(* Write-request assembly shared by the three actions.                     *)

\* the element of one relation mutation: an update event on the related
\* object that sets the reverse field to its new value
RelationElement(rel, user_id) ==
    LET fqid == <<rel.fqfield[1], rel.fqfield[2]>>
    IN  WriteRequestElement(
            << Event("update", fqid,
                     [k \in {rel.fqfield[3]} |-> rel.value]) >>,
            [q \in {fqid} |->
                << IF rel.type = "add" THEN "Object attached"
                   ELSE "Object attachment reset" >>],
            user_id)

AsElement(merged) ==
    WriteRequestElement(merged.events, merged.information, merged.user_id)

\* the element of one instance of the dataset: the instance's own element
\* merged with the elements of its relations
ElementOf(instance_element, relations, user_id) ==
    AsElement(merge_write_request_elements(
                  <<instance_element>>
                  \o [i \in 1..Len(relations) |->
                         RelationElement(relations[i], user_id)]))

\* the hooks validate_fields and update_instance, which by default return
\* the instance as it is
validate_fields(instance) == instance
update_instance(instance) == instance

FieldNames(fields) == [k \in 1..Len(fields) |-> fields[k].name]

-----------------------------------------------------------------------------
(* DeleteAction.                                                           *)

\* the position of an event type in the order of Python strings
TypeKey(type) ==
    CASE type = "create" -> 1 [] type = "delete" -> 2 [] OTHER -> 3

\* one step of a sort that is not stable: event placed before the events
\* of its own key
RECURSIVE InsertBeforeEqual(_, _)
InsertBeforeEqual(sorted, event) ==
    IF sorted = <<>> THEN <<event>>
    ELSE IF TypeKey(Head(sorted).type) > TypeKey(event.type)
    THEN <<Head(sorted)>> \o InsertBeforeEqual(Tail(sorted), event)
    ELSE <<event>> \o sorted

\* one step of a stable sort: event placed behind every event whose key is
\* not smaller
RECURSIVE InsertDescending(_, _)
InsertDescending(sorted, event) ==
    IF sorted = <<>> THEN <<event>>
    ELSE IF TypeKey(Head(sorted).type) >= TypeKey(event.type)
    THEN <<Head(sorted)>> \o InsertDescending(Tail(sorted), event)
    ELSE <<event>> \o sorted

RECURSIVE SortFrom(_, _, _)
SortFrom(events, k, sorted) ==
    IF k > Len(events) THEN sorted
    ELSE SortFrom(events, k + 1, InsertDescending(sorted, events[k]))

\* the events left in the order of the merge
SortedEventsUnsorted(events) == events

\* sorted(events, key=lambda event: event["type"], reverse=True)
SortedEvents(events) == SortFrom(events, 1, <<>>)

\* DeleteAction.delete_action_create_instance_write_request_element
delete_action_create_instance_write_request_element(coll, element, user_id) ==
    LET fqid == <<coll, element.instance["id"].v>>
    IN  WriteRequestElement(<< Event("delete", fqid, EmptyDict) >>,
                            [q \in {fqid} |-> <<"Object deleted">>],
                            user_id)

\* lines 301-307: the events of the merged element sorted
SortedElement(merged) ==
    IF Raised(merged) THEN [exc |-> merged.exc, elements |-> <<>>]
    ELSE [exc |-> NoExc,
          elements |->
             << WriteRequestElement(SortedEvents(merged.events),
                                    merged.information, merged.user_id) >>]

\* DeleteAction.delete_action_create_write_request_elements: the buffered
\* cascade elements and the direct ones merged into one, its events sorted
delete_action_create_write_request_elements(coll, data, buffer, user_id) ==
    SortedElement(merge_write_request_elements(
        buffer
        \o [i \in 1..Len(data) |->
               ElementOf(delete_action_create_instance_write_request_element(
                             coll, data[i], user_id),
                         data[i].relations, user_id)]))

\* the stored value of a CASCADE field as a list of FQIDs
ForeignFqids(field, db_instance) ==
    TargetsOf(field, GetOr(db_instance, field.name, PyList(<<>>)))

\* the test made on the payload instance, which holds no stored value
ProtectViolatedInPayload(field, instance, db_instance) ==
    field.on_delete = PROTECT /\ Truthy(Get(instance, field.name))

\* lines 239-240: a PROTECT field whose stored value is not empty
ProtectViolated(field, instance, db_instance) ==
    field.on_delete = PROTECT /\ Truthy(Get(db_instance, field.name))

RECURSIVE DeletePerform(_, _, _, _, _)
RECURSIVE CascadeFrom(_, _, _, _, _)
RECURSIVE DeleteFieldsFrom(_, _, _, _, _, _)
RECURSIVE DeleteInstancesFrom(_, _, _, _, _, _)

\* the elements a cascaded delete returned left out of the side buffer
CascadedDropped(st, fqid, res, depth) ==
    [st EXCEPT
       !.exc = res.exc,
       !.log = @ \o << Logged("perform", fqid, <<>>, FALSE, depth) >>
                 \o res.log]

\* lines 270-272: the elements a cascaded delete returned go to the side
\* buffer; what it raised is raised here
Cascaded(st, fqid, res, depth) ==
    [st EXCEPT
       !.exc = res.exc,
       !.log = @ \o << Logged("perform", fqid, <<>>, FALSE, depth) >>
                 \o res.log,
       !.buffer = @ \o res.elements]

\* a payload that names no instance
CascadePayloadEmpty(fqid) == [list |-> TRUE, items |-> <<>>]

\* lines 268-269: the standard payload of a delete, [{"id": fqid.id}]
CascadePayload(fqid) ==
    [list |-> TRUE, items |-> << [x \in {"id"} |-> PyInt(fqid[2])] >>]

\* lines 256-272: the delete action of every foreign FQID performed, its
\* elements added to the side buffer
CascadeFrom(foreign_fqids, k, st, user_id, depth) ==
    IF k > Len(foreign_fqids) \/ Raised(st) THEN st
    ELSE IF foreign_fqids[k][1] \notin actions_map
    THEN [st EXCEPT !.exc = Exc("ActionException", "no_delete_action",
                                foreign_fqids[k][1])]
    ELSE CascadeFrom(foreign_fqids, k + 1,
            Cascaded(st, foreign_fqids[k],
                     DeletePerform(foreign_fqids[k][1],
                                   CascadePayload(foreign_fqids[k]),
                                   user_id, <<>>, depth + 1),
                     depth),
            user_id, depth)

\* the read made without the lock
ReadUnlocked(st, coll, field, depth) ==
    [st EXCEPT
       !.log = Append(@, Logged("get", <<coll, st.instance["id"].v>>,
                                <<field.name>>, FALSE, depth))]

\* lines 234-238: database.get(fqid, mapped_fields=[field_name],
\* lock_result=True)
ReadLocked(st, coll, field, depth) ==
    [st EXCEPT
       !.log = Append(@, Logged("get", <<coll, st.instance["id"].v>>,
                                <<field.name>>, TRUE, depth))]

\* lines 233-272: a field whose policy is not SET_NULL, its stored value
\* read under a lock
CheckOnDelete(coll, field, st, user_id, depth) ==
    IF ~Has(st.instance, "id")
    THEN [st EXCEPT !.exc = Exc("KeyError", "id", "")]
    ELSE IF ~Exists(<<coll, st.instance["id"].v>>)
    THEN [ReadLocked(st, coll, field, depth)
             EXCEPT !.exc = Exc("NotFound", "object", coll)]
    ELSE IF ProtectViolated(field, st.instance,
                            DatabaseGet(<<coll, st.instance["id"].v>>,
                                        <<field.name>>))
    THEN [ReadLocked(st, coll, field, depth)
             EXCEPT !.exc = Exc("ActionException", "protect", field.to)]
    ELSE IF field.on_delete = CASCADE
    THEN CascadeFrom(
            ForeignFqids(field, DatabaseGet(<<coll, st.instance["id"].v>>,
                                            <<field.name>>)),
            1, ReadLocked(st, coll, field, depth), user_id, depth)
    ELSE ReadLocked(st, coll, field, depth)

\* no field left out
SkippedNever(field) == FALSE

\* lines 229-231: a field with a structured relation or a structured tag is
\* left out
Skipped(field) == field.structured_relation # <<>> \/ field.structured_tag

\* lines 228-275: the relation fields of one instance, in declaration order
DeleteFieldsFrom(coll, fields, j, st, user_id, depth) ==
    IF j > Len(fields) \/ Raised(st) THEN st
    ELSE DeleteFieldsFrom(coll, fields, j + 1,
            IF Skipped(fields[j])
            THEN st
            ELSE IF fields[j].on_delete # SET_NULL
            THEN CheckOnDelete(coll, fields[j], st, user_id, depth)
            ELSE [st EXCEPT
                    !.instance = Put(@, fields[j].name, None),
                    !.relation_fields = Append(@, fields[j])],
            user_id, depth)

\* lines 278-285: the relations of the instance resolved, the instance
\* added to the dataset
DeleteResolved(acc, st, rel, coll, depth) ==
    IF Raised(rel)
    THEN [acc EXCEPT
            !.exc = rel.exc,
            !.log = Append(st.log, Logged("get_relations",
                              <<coll, st.instance["id"].v>>,
                              FieldNames(st.relation_fields), FALSE, depth)),
            !.buffer = st.buffer]
    ELSE [acc EXCEPT
            !.log = Append(st.log, Logged("get_relations",
                              <<coll, st.instance["id"].v>>,
                              FieldNames(st.relation_fields), FALSE, depth)),
            !.buffer = st.buffer,
            !.data = Append(@, [instance |-> st.instance,
                                relations |-> rel.relations])]

\* an instance that raised skipped, the batch going on with the next one
DeleteInstanceSkipFailed(coll, acc, st, depth) ==
    IF Raised(st) \/ ~Has(st.instance, "id")
    THEN [acc EXCEPT !.log = st.log, !.buffer = st.buffer]
    ELSE DeleteResolved(acc, st,
            get_relations(coll, st.instance["id"].v, st.instance,
                          st.relation_fields, FALSE),
            coll, depth)

\* one instance, its relation fields gone through
DeleteInstance(coll, acc, st, depth) ==
    IF Raised(st)
    THEN [acc EXCEPT !.exc = st.exc, !.log = st.log, !.buffer = st.buffer]
    ELSE IF ~Has(st.instance, "id")
    THEN [acc EXCEPT !.exc = Exc("KeyError", "id", ""), !.log = st.log,
                     !.buffer = st.buffer]
    ELSE DeleteResolved(acc, st,
            get_relations(coll, st.instance["id"].v, st.instance,
                          st.relation_fields, FALSE),
            coll, depth)

\* lines 219-285: the instances of the payload, in payload order
DeleteInstancesFrom(coll, items, i, acc, user_id, depth) ==
    IF i > Len(items) \/ Raised(acc) THEN acc
    ELSE DeleteInstancesFrom(coll, items, i + 1,
            DeleteInstance(coll, acc,
               DeleteFieldsFrom(
                  coll, get_relation_fields(coll), 1,
                  [exc |-> NoExc, log |-> acc.log, buffer |-> acc.buffer,
                   instance |-> update_instance(items[i]),
                   relation_fields |-> <<>>],
                  user_id, depth),
               depth),
            user_id, depth)

\* DeleteAction.delete_action_prepare_dataset
delete_action_prepare_dataset(coll, payload, buffer, user_id, depth) ==
    IF ~payload.list
    THEN [exc |-> Exc("TypeError", "payload", ""), log |-> <<>>,
          buffer |-> buffer, data |-> <<>>]
    ELSE DeleteInstancesFrom(coll, payload.items, 1,
            [exc |-> NoExc, log |-> <<>>, buffer |-> buffer, data |-> <<>>],
            user_id, depth)

\* the elements of a prepared dataset, or nothing when preparation raised
DeleteElements(coll, ds, user_id) ==
    IF Raised(ds)
    THEN [exc |-> ds.exc, elements |-> <<>>, log |-> ds.log,
          buffer |-> ds.buffer, data |-> ds.data]
    ELSE [log |-> ds.log, buffer |-> ds.buffer, data |-> ds.data]
         @@ delete_action_create_write_request_elements(
                coll, ds.data, ds.buffer, user_id)

\* perform(payload, user_id) of a delete action object whose side buffer
\* holds buffer: the dataset is prepared, then the elements are created
DeletePerform(coll, payload, user_id, buffer, depth) ==
    IF depth > MaxDepth
    THEN [exc |-> Exc("RecursionError", "", ""), elements |-> <<>>,
          log |-> <<>>, buffer |-> buffer, data |-> <<>>]
    ELSE DeleteElements(coll,
            delete_action_prepare_dataset(coll, payload, buffer, user_id,
                                          depth),
            user_id)

-----------------------------------------------------------------------------
(* CreateAction.                                                           *)

RECURSIVE DefaultsFrom(_, _, _)
DefaultsFrom(fields, k, instance) ==
    IF k > Len(fields) THEN instance
    ELSE DefaultsFrom(fields, k + 1,
            IF ~Has(instance, fields[k].name) /\ fields[k].default # None
            THEN Put(instance, fields[k].name, fields[k].default)
            ELSE instance)

\* the defaults filled in by truth value, so that "" and 0 are left out
RECURSIVE DefaultsFromTruthy(_, _, _)
DefaultsFromTruthy(fields, k, instance) ==
    IF k > Len(fields) THEN instance
    ELSE DefaultsFromTruthy(fields, k + 1,
            IF ~Has(instance, fields[k].name) /\ Truthy(fields[k].default)
            THEN Put(instance, fields[k].name, fields[k].default)
            ELSE instance)

set_defaults_truthy(coll, instance) ==
    DefaultsFromTruthy(get_fields(coll), 1, instance)

\* CreateAction.set_defaults
set_defaults(coll, instance) == DefaultsFrom(get_fields(coll), 1, instance)

\* the relation fields present in the instance, in declaration order
PresentRelationFields(coll, instance) ==
    SelectSeq(get_relation_fields(coll), LAMBDA f : Has(instance, f.name))

\* the test for a foreign key field that is missing, a None value let through
CreateStructuredViolationMissingOnly(coll, instance) ==
    \E k \in 1..Len(get_relation_fields(coll)) :
        LET field == get_relation_fields(coll)[k]
        IN  /\ Has(instance, field.name)
            /\ field.structured_relation # <<>>
            /\ ~Has(instance, field.structured_relation[1])

\* lines 38-46: a present field with a structured relation whose foreign
\* key field is missing or None
CreateStructuredViolation(coll, instance) ==
    \E k \in 1..Len(get_relation_fields(coll)) :
        LET field == get_relation_fields(coll)[k]
        IN  /\ Has(instance, field.name)
            /\ field.structured_relation # <<>>
            /\ Get(instance, field.structured_relation[1]) = None

\* lines 49-63: an id reserved, the relations resolved with the shortcut,
\* the instance added to the dataset
CreateResolved(acc, coll, instance, new_id, rel) ==
    IF Raised(rel)
    THEN [acc EXCEPT
            !.exc = rel.exc,
            !.reserved = @ + 1,
            !.log = @ \o
               << Logged("reserve_id", <<coll, new_id>>, <<>>, FALSE, 0),
                  Logged("get_relations", <<coll, new_id>>,
                         FieldNames(PresentRelationFields(coll, instance)),
                         TRUE, 0) >>]
    ELSE [acc EXCEPT
            !.reserved = @ + 1,
            !.log = @ \o
               << Logged("reserve_id", <<coll, new_id>>, <<>>, FALSE, 0),
                  Logged("get_relations", <<coll, new_id>>,
                         FieldNames(PresentRelationFields(coll, instance)),
                         TRUE, 0) >>,
            !.data = Append(@, [instance |-> instance, new_id |-> new_id,
                                relations |-> rel.relations])]

\* lines 31-63: one instance
CreateInstance(coll, acc, instance, new_id) ==
    IF CreateStructuredViolation(coll, instance)
    THEN [acc EXCEPT !.exc = Exc("ActionException",
                                 "structured_both_required", "")]
    ELSE CreateResolved(acc, coll, instance, new_id,
            get_relations(coll, new_id, instance,
                          PresentRelationFields(coll, instance), TRUE))

\* database.reserve_id(collection) when n ids were handed out before
reserve_id(n) == MaxStoredId + n + 1

RECURSIVE CreateInstancesFrom(_, _, _, _)
CreateInstancesFrom(coll, items, i, acc) ==
    IF i > Len(items) \/ Raised(acc) THEN acc
    ELSE CreateInstancesFrom(coll, items, i + 1,
            CreateInstance(coll, acc,
               update_instance(validate_fields(set_defaults(coll, items[i]))),
               reserve_id(acc.reserved)))

\* CreateAction.create_action_prepare_dataset
create_action_prepare_dataset(coll, payload, ids_reserved) ==
    IF ~payload.list
    THEN [exc |-> Exc("TypeError", "payload", ""), log |-> <<>>,
          reserved |-> ids_reserved, data |-> <<>>]
    ELSE CreateInstancesFrom(coll, payload.items, 1,
            [exc |-> NoExc, log |-> <<>>, reserved |-> ids_reserved,
             data |-> <<>>])

\* CreateAction.create_action_create_instance_write_request_element
create_action_create_instance_write_request_element(coll, element, user_id) ==
    LET fqid == <<coll, element.new_id>>
    IN  WriteRequestElement(<< Event("create", fqid, element.instance) >>,
                            [q \in {fqid} |-> <<"Object created">>],
                            user_id)

\* the elements of a prepared dataset, or nothing when preparation raised
CreateElements(coll, ds, user_id) ==
    [exc |-> ds.exc, log |-> ds.log, reserved |-> ds.reserved,
     data |-> ds.data,
     elements |->
        IF Raised(ds) THEN <<>>
        ELSE [i \in 1..Len(ds.data) |->
                 ElementOf(
                    create_action_create_instance_write_request_element(
                        coll, ds.data[i], user_id),
                    ds.data[i].relations, user_id)]]

\* perform(payload, user_id) of a create action
CreatePerform(coll, payload, user_id, ids_reserved) ==
    CreateElements(coll,
                   create_action_prepare_dataset(coll, payload, ids_reserved),
                   user_id)

-----------------------------------------------------------------------------
(* UpdateAction.                                                           *)

\* the test of the create action used for the update
UpdateStructuredViolationAsCreate(coll, instance) ==
    \E k \in 1..Len(get_relation_fields(coll)) :
        LET field == get_relation_fields(coll)[k]
        IN  /\ Has(instance, field.name)
            /\ field.structured_relation # <<>>
            /\ Get(instance, field.structured_relation[1]) = None

\* lines 137-145: a present field with a structured relation whose foreign
\* key field is set as well
UpdateStructuredViolation(coll, instance) ==
    \E k \in 1..Len(get_relation_fields(coll)) :
        LET field == get_relation_fields(coll)[k]
        IN  /\ Has(instance, field.name)
            /\ field.structured_relation # <<>>
            /\ Get(instance, field.structured_relation[1]) # None

\* lines 148-156: the relations resolved, the instance added to the dataset
UpdateResolved(acc, coll, instance, rel) ==
    IF Raised(rel)
    THEN [acc EXCEPT
            !.exc = rel.exc,
            !.log = Append(@, Logged("get_relations",
                              <<coll, instance["id"].v>>,
                              FieldNames(PresentRelationFields(coll, instance)),
                              FALSE, 0))]
    ELSE [acc EXCEPT
            !.log = Append(@, Logged("get_relations",
                              <<coll, instance["id"].v>>,
                              FieldNames(PresentRelationFields(coll, instance)),
                              FALSE, 0)),
            !.data = Append(@, [instance |-> instance,
                                relations |-> rel.relations])]

\* lines 126-156: one instance
UpdateInstance(coll, acc, instance) ==
    IF ~IsInt(Get(instance, "id"))
    THEN [acc EXCEPT !.exc = Exc("TypeError", "id", "")]
    ELSE IF UpdateStructuredViolation(coll, instance)
    THEN [acc EXCEPT !.exc = Exc("ActionException",
                                 "structured_both_forbidden", "")]
    ELSE UpdateResolved(acc, coll, instance,
            get_relations(coll, instance["id"].v, instance,
                          PresentRelationFields(coll, instance), FALSE))

RECURSIVE UpdateInstancesFrom(_, _, _, _)
UpdateInstancesFrom(coll, items, i, acc) ==
    IF i > Len(items) \/ Raised(acc) THEN acc
    ELSE UpdateInstancesFrom(coll, items, i + 1,
            UpdateInstance(coll, acc,
                           update_instance(validate_fields(items[i]))))

\* UpdateAction.update_action_prepare_dataset
update_action_prepare_dataset(coll, payload) ==
    IF ~payload.list
    THEN [exc |-> Exc("TypeError", "payload", ""), log |-> <<>>,
          data |-> <<>>]
    ELSE UpdateInstancesFrom(coll, payload.items, 1,
            [exc |-> NoExc, log |-> <<>>, data |-> <<>>])

\* the event carrying the whole instance, its id included
update_element_with_id(coll, element, user_id) ==
    LET fqid == <<coll, element.instance["id"].v>>
    IN  WriteRequestElement(<< Event("update", fqid, element.instance) >>,
                            [q \in {fqid} |-> <<"Object updated">>],
                            user_id)

\* UpdateAction.update_action_create_instance_write_request_element
update_action_create_instance_write_request_element(coll, element, user_id) ==
    LET fqid == <<coll, element.instance["id"].v>>
        fields == [k \in DOMAIN element.instance \ {"id"} |->
                      element.instance[k]]
    IN  WriteRequestElement(<< Event("update", fqid, fields) >>,
                            [q \in {fqid} |-> <<"Object updated">>],
                            user_id)

\* the elements of a prepared dataset, or nothing when preparation raised
UpdateElements(coll, ds, user_id) ==
    [exc |-> ds.exc, log |-> ds.log, data |-> ds.data,
     elements |->
        IF Raised(ds) THEN <<>>
        ELSE [i \in 1..Len(ds.data) |->
                 ElementOf(
                    update_action_create_instance_write_request_element(
                        coll, ds.data[i], user_id),
                    ds.data[i].relations, user_id)]]

\* perform(payload, user_id) of an update action
UpdatePerform(coll, payload, user_id) ==
    UpdateElements(coll, update_action_prepare_dataset(coll, payload), user_id)

-----------------------------------------------------------------------------
(* MotionCommentSectionSort: the linear sort of the sections of a meeting. *)

Section == "motion_comment_section"

\* database.filter(collection, filter_str = filter_id): the ids of the
\* stored objects of the collection whose field has that value
DatabaseFilter(coll, filter_str, filter_id) ==
    {q[2] : q \in {x \in DOMAIN db :
                      x[1] = coll /\ Get(db[x], filter_str) = filter_id}}

\* LinearSortMixin.sort_linear: the nodes checked against the ids stored
\* for the scope, then one instance per node with its position as weight
sort_linear(coll, nodes, filter_id, filter_str) ==
    IF \/ nodes.t # "list"
       \/ SeqToSet(nodes.v) # DatabaseFilter(coll, filter_str, filter_id)
       \/ Len(nodes.v) # Cardinality(DatabaseFilter(coll, filter_str,
                                                    filter_id))
    THEN [exc |-> Exc("ActionException", "sort_nodes", coll),
          instances |-> <<>>]
    ELSE [exc |-> NoExc,
          instances |-> [i \in 1..Len(nodes.v) |->
                            ("id" :> PyInt(nodes.v[i]))
                            @@ ("weight" :> PyInt(i))]]

\* the sections looked up by a field the payload does not scope them by
get_updated_instances_by_id(payload) ==
    IF ~payload.list \/ Len(payload.items) # 1
    THEN [exc |-> Exc("ActionException", "singular", ""), instances |-> <<>>]
    ELSE sort_linear(Section,
                     Get(payload.items[1], "motion_comment_section_ids"),
                     Get(payload.items[1], "meeting_id"), "id")

\* MotionCommentSectionSort.get_updated_instances
get_updated_instances(payload) ==
    IF ~payload.list \/ Len(payload.items) # 1
    THEN [exc |-> Exc("ActionException", "singular", ""), instances |-> <<>>]
    ELSE sort_linear(Section,
                     Get(payload.items[1], "motion_comment_section_ids"),
                     Get(payload.items[1], "meeting_id"), "meeting_id")

\* the instances of the sort given to the update
SortUpdated(updated, user_id) ==
    IF Raised(updated)
    THEN [exc |-> updated.exc, log |-> <<>>, data |-> <<>>,
          elements |-> <<>>]
    ELSE UpdatePerform(Section, [list |-> TRUE, items |-> updated.instances],
                       user_id)

\* perform(payload, user_id) of the sort action
SortPerform(payload, user_id) ==
    SortUpdated(get_updated_instances(payload), user_id)

-----------------------------------------------------------------------------
(* The stored objects and the payloads the actions are performed on.       *)

\* the meeting that scopes the structured relations
MeetingId == 222

\* what varies between the datastores: the fake_model_b objects that
\* fake_model_a/1 cascades to, whether fake_model_b/1 cascades to
\* fake_model_c/1, the object fake_model_c/1 cascades to, and whether
\* fake_model_a/1 is protected
Params ==
    {p \in [a1_b_ids : {<<>>, <<1>>, <<2, 1>>, <<1, 1>>},
            b1_c_ids : {<<>>, <<1>>},
            c1_content : {<<>>, <<B, 1>>, <<D, 1>>},
            a1_protected : BOOLEAN] :
        /\ p.b1_c_ids = <<>> => p.c1_content = <<>>
        /\ p.a1_b_ids = <<>> => p.b1_c_ids = <<>>
        /\ p.a1_b_ids = <<1, 1>> => p.c1_content = <<>>
        /\ p.a1_protected => p.a1_b_ids = <<2, 1>> /\ p.c1_content = <<>>}

When(cond, k, val) == IF cond THEN k :> val ELSE EmptyDict

\* a datastore with two objects each of fake_model_a, fake_model_b and
\* fake_model_c, the reverse fields of SET_NULL relations kept in step;
\* fake_model_b/2 and fake_model_c/2 store a value in their structured
\* relation
Datastore(p) ==
    (<<A, 1>> :>
        (("title" :> PyStr("t"))
         @@ ("c_id" :> PyInt(1))
         @@ ("b_ids" :> PyList(p.a1_b_ids))
         @@ ("protected_c_ids" :>
                PyList(IF p.a1_protected THEN <<1>> ELSE <<>>))))
    @@ (<<A, 2>> :> (("title" :> PyStr("t")) @@ ("b_ids" :> PyList(<<2>>))))
    @@ (<<B, 1>> :>
        (("meeting_id" :> PyInt(MeetingId))
         @@ When(InSeq(1, p.a1_b_ids), "a_id", PyInt(1))
         @@ ("c_ids" :> PyList(p.b1_c_ids))))
    @@ (<<B, 2>> :>
        (("a_id" :> PyInt(2))
         @@ ("c_ids" :> PyList(<<2>>))
         @@ ("structured_relation_field" :> PyInt(2))))
    @@ (<<C, 1>> :>
        (("foreign_key_field" :> PyInt(1))
         @@ ("a_ids" :> PyList(<<1>>))
         @@ When(p.c1_content # <<>>, "content_object_id",
                 [t |-> "fqid", v |-> p.c1_content])))
    @@ (<<C, 2>> :>
        (("foreign_key_field" :> PyInt(2))
         @@ ("structured_relation_field" :> PyInt(1))))
    @@ [q \in {<<Section, i>> : i \in 1..4} |->
           ("meeting_id" :> PyInt(IF q[2] = 4 THEN 6 ELSE 5))
           @@ ("weight" :> PyInt(4 - q[2]))]

Users == {1}

RECURSIVE SeqsUpTo(_, _)
SeqsUpTo(S, n) ==
    IF n = 0 THEN {<<>>}
    ELSE LET shorter == SeqsUpTo(S, n - 1)
         IN  shorter \cup {Append(q, x) : q \in shorter, x \in S}

\* the payloads over a set of instances: the lists of one to MaxBatch
\* instances, and an instance given without a list around it
Payloads(instances) ==
    {[list |-> TRUE, items |-> q] : q \in SeqsUpTo(instances, MaxBatch) \ {<<>>}}
    \cup {[list |-> FALSE, items |-> <<CHOOSE x \in instances : TRUE>>]}

\* the instances of a delete: the ids of the stored objects, the first id
\* behind them, which names no object, and an instance without id
DeleteInstances ==
    {("id" :> PyInt(i)) :
        i \in {k \in 1..(MaxStoredId + 1) :
                  Exists(<<A, k>>) \/ k = MaxStoredId + 1}}
    \cup {EmptyDict}

CreateInstances(coll) ==
    IF coll = A
    THEN { "title" :> PyStr("t"),
           ("title" :> PyStr("t")) @@ ("text" :> PyStr("x")),
           ("title" :> PyStr("t")) @@ ("text" :> None),
           ("title" :> PyStr("t")) @@ ("c_id" :> PyInt(1)) }
    ELSE { ("meeting_id" :> PyInt(MeetingId))
              @@ ("structured_relation_field" :> PyInt(1)),
           "structured_relation_field" :> PyInt(1),
           ("meeting_id" :> None) @@ ("structured_relation_field" :> PyInt(1)),
           "structured_relation_field" :> None,
           "meeting_id" :> PyInt(MeetingId) }

UpdateInstances(coll) ==
    IF coll = A
    THEN { ("id" :> PyInt(1)) @@ ("title" :> PyStr("u")),
           ("id" :> PyInt(2)) @@ ("c_id" :> PyInt(1)),
           ("id" :> PyStr("1")) @@ ("title" :> PyStr("u")),
           "title" :> PyStr("u") }
    ELSE IF coll = C
    THEN { ("id" :> PyInt(1)) @@ ("structured_relation_field" :> PyInt(1)),
           ("id" :> PyInt(1)) @@ ("structured_relation_field" :> PyInt(2)),
           ("id" :> PyInt(2)) @@ ("structured_relation_field" :> PyInt(1)),
           ("id" :> PyInt(1)) @@ ("foreign_key_field" :> PyInt(1))
              @@ ("structured_relation_field" :> PyInt(1)) }
    ELSE { ("id" :> PyInt(1)) @@ ("structured_relation_field" :> PyInt(1)),
           ("id" :> PyInt(2)) @@ ("structured_relation_field" :> PyInt(1)),
           ("id" :> PyInt(1)) @@ ("meeting_id" :> PyInt(MeetingId))
              @@ ("structured_relation_field" :> PyInt(1)),
           ("id" :> PyInt(1)) @@ ("meeting_id" :> None)
              @@ ("structured_relation_field" :> PyInt(2)),
           "structured_relation_field" :> PyInt(1) }

\* the payloads of a sort: one instance with the ids in their new order and
\* the meeting, and a payload of two instances
SortInstances ==
    {("motion_comment_section_ids" :> PyList(nodes))
        @@ ("meeting_id" :> PyInt(m)) :
        nodes \in SeqsUpTo(1..4, MaxNodes), m \in {5, 6}}

SortPayloads ==
    {[list |-> TRUE, items |-> <<x>>] : x \in SortInstances}
    \cup {[list |-> TRUE,
           items |-> << ("motion_comment_section_ids" :> PyList(<<4>>))
                           @@ ("meeting_id" :> PyInt(6)),
                        ("motion_comment_section_ids" :> PyList(<<4>>))
                           @@ ("meeting_id" :> PyInt(6)) >>]}

-----------------------------------------------------------------------------
(* The state machine: an action object is constructed for a model and      *)
(* performs the batch of its request.  Create and update action objects    *)
(* hold nothing between batches; a delete action object keeps its side     *)
(* buffer and may be handed further batches.                               *)

Result(op, payload, user_id, buffer_before, r) ==
    [op |-> op, payload |-> payload, user_id |-> user_id,
     buffer_before |-> buffer_before, exc |-> r.exc, data |-> r.data,
     elements |-> r.elements, log |-> r.log]

Nothing == [exc |-> NoExc, data |-> <<>>, elements |-> <<>>, log |-> <<>>]
NoPayload == [list |-> TRUE, items |-> <<>>]
Constructed == Result("construct", NoPayload, 0, <<>>, Nothing)

Init ==
    /\ db \in {Datastore(p) : p \in Params}
    /\ action = [class |-> "none", model |-> A]
    /\ additional_write_requests = <<>>
    /\ result = Result("none", NoPayload, 0, <<>>, Nothing)

\* what perform left behind: the side buffer and what the caller got
Returned(op, payload, user_id, r) ==
    /\ additional_write_requests' = r.buffer
    /\ result' = Result(op, payload, user_id, additional_write_requests, r)

\* Action.__init__ (DeleteAction.__init__ for a delete action, whose side
\* buffer starts empty)
Construct(class, model) ==
    /\ action' = [class |-> class, model |-> model]
    /\ additional_write_requests' = <<>>
    /\ result' = Constructed
    /\ UNCHANGED db

\* CreateAction.perform(payload, user_id) with a datastore that handed out
\* ids_reserved ids before
Create(payload, user_id, ids_reserved) ==
    /\ action.class = "create"
    /\ result = Constructed
    /\ Returned("create", payload, user_id,
                [buffer |-> <<>>]
                @@ CreatePerform(action.model, payload, user_id,
                                 ids_reserved))
    /\ UNCHANGED <<db, action>>

\* UpdateAction.perform(payload, user_id)
Update(payload, user_id) ==
    /\ action.class = "update"
    /\ result = Constructed
    /\ Returned("update", payload, user_id,
                [buffer |-> <<>>]
                @@ UpdatePerform(action.model, payload, user_id))
    /\ UNCHANGED <<db, action>>

\* MotionCommentSectionSort.perform(payload, user_id)
Sort(payload, user_id) ==
    /\ action.class = "sort"
    /\ result = Constructed
    /\ Returned("sort", payload, user_id,
                [buffer |-> <<>>] @@ SortPerform(payload, user_id))
    /\ UNCHANGED <<db, action>>

\* DeleteAction.perform(payload, user_id)
Delete(payload, user_id) ==
    /\ action.class = "delete"
    /\ Len(additional_write_requests) < MaxBuffered
    /\ Returned("delete", payload, user_id,
                DeletePerform(action.model, payload, user_id,
                                 additional_write_requests, 1))
    /\ UNCHANGED <<db, action>>

Next ==
    \/ \E class \in {"create", "update"} : \E model \in {A, B} :
          Construct(class, model)
    \/ Construct("update", C)
    \/ Construct("sort", Section)
    \/ \E payload \in SortPayloads : \E user_id \in Users :
          Sort(payload, user_id)
    \/ Construct("delete", A)
    \/ \E payload \in Payloads(CreateInstances(action.model)) :
          \E user_id \in Users : \E ids_reserved \in 0..MaxReserved :
             Create(payload, user_id, ids_reserved)
    \/ \E payload \in Payloads(UpdateInstances(action.model)) :
          \E user_id \in Users : Update(payload, user_id)
    \/ \E payload \in Payloads(DeleteInstances) : \E user_id \in Users :
          Delete(payload, user_id)

Spec == Init /\ [][Next]_vars

-----------------------------------------------------------------------------
(* The properties of the specification, each stated over what the last     *)
(* perform returned (result) and the calls it made (result.log).           *)

Failed == Raised(result)
Items == result.payload.items
TypesOf(events) == [i \in 1..Len(events) |-> events[i].type]
DeleteCount(events) ==
    Cardinality({i \in 1..Len(events) : events[i].type = "delete"})

\* the events of a list of elements, in order
RECURSIVE EventsIn(_)
EventsIn(elements) ==
    IF elements = <<>> THEN <<>>
    ELSE Head(elements).events \o EventsIn(Tail(elements))

\* C1: a delete batch that succeeds returns one element, and in it every
\* event that is no delete (the relation updates of the cascades and of the
\* SET_NULL fields) stands before every delete event
C1_UpdatesBeforeDeletes ==
    (result.op = "delete" /\ ~Failed) =>
        /\ Len(result.elements) = 1
        /\ \A i, j \in 1..Len(result.elements[1].events) :
              (/\ result.elements[1].events[i].type # "delete"
               /\ result.elements[1].events[j].type = "delete") => i < j

\* a delete whose cascade elements, deletes among them, were merged in front
\* of the relation updates of the payload instance
C1_Witness ==
    /\ result.op = "delete" /\ ~Failed
    /\ DeleteCount(EventsIn(additional_write_requests)) > 0
    /\ \E i \in 1..Len(result.elements[1].events) :
          /\ result.elements[1].events[i].type = "update"
          /\ result.elements[1].events[i].fqid[1] = C
    /\ TypesOf(result.elements[1].events)
          # TypesOf(EventsIn(additional_write_requests))
                \o <<"delete">> \o
                [i \in 1..(Len(result.elements[1].events) - 1
                           - Len(EventsIn(additional_write_requests)))
                   |-> "update"]

\* the relation fields of a collection with a given policy that a delete
\* looks at
PolicyFields(coll, policy) ==
    {f \in SeqToSet(get_relation_fields(coll)) :
        /\ f.on_delete = policy
        /\ f.structured_relation = <<>>
        /\ ~f.structured_tag}

\* a read the delete made of a PROTECT field whose stored value is not empty
ProtectedRead(entry) ==
    /\ entry.e = "get"
    /\ \E f \in PolicyFields(entry.fqid[1], PROTECT) :
          /\ entry.fields = <<f.name>>
          /\ Exists(entry.fqid)
          /\ Truthy(Get(db[entry.fqid], f.name))

\* C2: a delete batch in which an instance that was processed has a PROTECT
\* relation with a non-empty stored value fails with an ActionException and
\* returns no element, whatever the instances before it were
C2_ProtectFailsBatch ==
    (/\ result.op = "delete"
     /\ \E k \in 1..Len(result.log) : ProtectedRead(result.log[k]))
    => /\ result.exc.type = "ActionException"
       /\ result.exc.msg = "protect"
       /\ result.elements = <<>>

\* the processed instance that is protected comes second in its batch, behind
\* an instance whose cascades were performed
C2_Witness ==
    /\ result.op = "delete"
    /\ result.exc.msg = "protect"
    /\ Len(Items) = 2
    /\ Len(additional_write_requests) > Len(result.buffer_before)
    /\ ProtectedRead(result.log[Len(result.log)])

\* the FQIDs stored in the CASCADE relations of an object, in the order of
\* the fields
RECURSIVE CascadeTargets(_, _, _)
CascadeTargets(fields, k, obj) ==
    IF k > Len(fields) THEN <<>>
    ELSE (IF fields[k] \in PolicyFields(obj.coll, CASCADE)
          THEN TargetsOf(fields[k], Get(obj.stored, fields[k].name))
          ELSE <<>>)
         \o CascadeTargets(fields, k + 1, obj)

StoredCascadeTargets(fqid) ==
    IF Exists(fqid)
    THEN CascadeTargets(get_relation_fields(fqid[1]), 1,
                        [coll |-> fqid[1], stored |-> db[fqid]])
    ELSE <<>>

\* the objects reached from fqid along stored CASCADE relations, fqid
\* included, an object counted once for every path that leads to it
RECURSIVE Reached(_, _)
RECURSIVE ReachedFromAll(_, _)
Reached(fqid, fuel) ==
    IF fuel = 0 THEN 1
    ELSE 1 + ReachedFromAll(StoredCascadeTargets(fqid), fuel - 1)
ReachedFromAll(fqids, fuel) ==
    IF fqids = <<>> THEN 0
    ELSE Reached(Head(fqids), fuel) + ReachedFromAll(Tail(fqids), fuel)

PayloadFqids == [i \in 1..Len(Items) |-> <<action.model, Items[i]["id"].v>>]

\* C3 as the specification states it, for the batch that suits it best (one
\* instance, an action object that performed nothing before): with N objects
\* stored in the CASCADE relations of the instance there are N + 1 delete
\* events
C3_Original ==
    (/\ result.op = "delete" /\ ~Failed
     /\ Len(Items) = 1
     /\ result.buffer_before = <<>>)
    => DeleteCount(result.elements[1].events)
          = Len(StoredCascadeTargets(PayloadFqids[1])) + 1

\* C3: the element of a delete batch that succeeds holds one delete event
\* for every object reached from the payload instances along stored CASCADE
\* relations, the instances included, and the delete events the side buffer
\* held before; these are N + 1 for one instance, an empty buffer and N
\* targets that cascade no further
C3_DeletesOfTheCascade ==
    (result.op = "delete" /\ ~Failed) =>
        /\ DeleteCount(result.elements[1].events)
              = DeleteCount(EventsIn(result.buffer_before))
                + ReachedFromAll(PayloadFqids, MaxDepth + 1)
        /\ (/\ Len(Items) = 1
            /\ result.buffer_before = <<>>
            /\ \A k \in 1..Len(StoredCascadeTargets(PayloadFqids[1])) :
                  StoredCascadeTargets(
                      StoredCascadeTargets(PayloadFqids[1])[k]) = <<>>)
           => DeleteCount(result.elements[1].events)
                 = Len(StoredCascadeTargets(PayloadFqids[1])) + 1

\* one instance with one CASCADE target that cascades to a third object:
\* three delete events for N = 1
C3_Witness ==
    /\ result.op = "delete" /\ ~Failed
    /\ Len(Items) = 1
    /\ result.buffer_before = <<>>
    /\ Len(StoredCascadeTargets(PayloadFqids[1])) = 1
    /\ DeleteCount(result.elements[1].events) = 3

\* a read the delete made of a CASCADE field that names an object of a
\* collection no delete action is registered for
UndeletableRead(entry) ==
    /\ entry.e = "get"
    /\ \E f \in PolicyFields(entry.fqid[1], CASCADE) :
          /\ entry.fields = <<f.name>>
          /\ Exists(entry.fqid)
          /\ \E t \in SeqToSet(TargetsOf(f, Get(db[entry.fqid], f.name))) :
                t[1] \notin actions_map

\* C4: a batch in which an instance fails returns no element at all: what
\* raised, raised out of perform; an instance without a usable id or a
\* cascade that cannot be performed fails the batch wherever it stands; and
\* elements are returned only with every payload instance prepared
C4_AllOrNothing ==
    /\ Failed => result.elements = <<>>
    /\ (result.op \in {"create", "update", "delete"} /\ ~Failed)
          => Len(result.data) = Len(Items)
    /\ (/\ result.op = "delete" /\ result.payload.list
        /\ \E i \in 1..Len(Items) : ~Has(Items[i], "id"))
          => result.elements = <<>>
    /\ (/\ result.op = "update" /\ result.payload.list
        /\ \E i \in 1..Len(Items) : ~IsInt(Get(Items[i], "id")))
          => result.elements = <<>>
    /\ (/\ result.op = "delete"
        /\ \E k \in 1..Len(result.log) : UndeletableRead(result.log[k]))
          => result.elements = <<>>

\* a delete that failed two levels down, with the elements of an earlier
\* cascade already in the side buffer
C4_Witness ==
    /\ result.op = "delete"
    /\ result.exc.msg = "no_delete_action"
    /\ result.elements = <<>>
    /\ Len(additional_write_requests) > Len(result.buffer_before)
    /\ \E k \in 1..Len(result.log) : result.log[k].depth = 3

\* the fields of a model that declare a default
DefaultNames(coll) ==
    {get_fields(coll)[k].name : k \in {j \in 1..Len(get_fields(coll)) :
                                          get_fields(coll)[j].default # None}}

\* the input with every absent field that declares a default added
WithDefaults(coll, input) ==
    [k \in DOMAIN input \cup DefaultNames(coll) |->
        IF k \in DOMAIN input THEN input[k] ELSE get_field(coll, k).default]

\* C5: the create event of every instance of a create batch carries the
\* input fields with their values and every absent field that declares a
\* default with that default, the empty string and 0 among them, and no
\* other field
C5_CreateDefaults ==
    (result.op = "create" /\ ~Failed) =>
        /\ Len(result.elements) = Len(Items)
        /\ \A i \in 1..Len(Items) :
              /\ result.elements[i].events[1].type = "create"
              /\ result.elements[i].events[1].fields
                    = WithDefaults(action.model, Items[i])
              /\ (action.model = A /\ ~Has(Items[i], "text"))
                    => result.elements[i].events[1].fields["text"] = PyStr("")

\* the scenario of the specification: {title: "t"} created for the model
\* whose text defaults to ""
C5_Witness ==
    /\ result.op = "create" /\ ~Failed
    /\ action.model = A
    /\ Items[1] = ("title" :> PyStr("t"))
    /\ result.elements[1].events[1].fields
          = (("title" :> PyStr("t")) @@ ("text" :> PyStr(""))
             @@ ("weight" :> PyInt(0)))

\* C6: the update event of every instance of an update batch is on the FQID
\* of the model's collection and the instance's id, and its fields are the
\* keys of the instance other than id with their values
C6_UpdateWithoutId ==
    (result.op = "update" /\ ~Failed) =>
        /\ Len(result.elements) = Len(Items)
        /\ \A i \in 1..Len(Items) :
              /\ result.elements[i].events[1].type = "update"
              /\ result.elements[i].events[1].fqid
                    = <<action.model, Items[i]["id"].v>>
              /\ "id" \notin DOMAIN result.elements[i].events[1].fields
              /\ result.elements[i].events[1].fields
                    = [k \in DOMAIN Items[i] \ {"id"} |-> Items[i][k]]

\* an update batch of two instances with different ids
C6_Witness ==
    /\ result.op = "update" /\ ~Failed
    /\ Len(Items) = 2
    /\ Items[1]["id"] # Items[2]["id"]
    /\ DOMAIN result.elements[2].events[1].fields = DOMAIN Items[2] \ {"id"}

\* the fields of a model that are structured relations
StructuredFields(coll) ==
    {f \in SeqToSet(get_relation_fields(coll)) : f.structured_relation # <<>>}

\* a structured relation present in the instance without its foreign key,
\* and one present with its foreign key set
LacksCompanion(coll, inst) ==
    \E f \in StructuredFields(coll) :
        /\ f.name \in DOMAIN inst
        /\ \/ f.structured_relation[1] \notin DOMAIN inst
           \/ inst[f.structured_relation[1]] = None
SetsCompanion(coll, inst) ==
    \E f \in StructuredFields(coll) :
        /\ f.name \in DOMAIN inst
        /\ f.structured_relation[1] \in DOMAIN inst
        /\ inst[f.structured_relation[1]] # None

FirstLacking ==
    CHOOSE i \in 1..Len(Items) :
        /\ LacksCompanion(action.model, Items[i])
        /\ \A j \in 1..(i - 1) : ~LacksCompanion(action.model, Items[j])
FirstSetting ==
    CHOOSE i \in 1..Len(Items) :
        /\ SetsCompanion(action.model, Items[i])
        /\ \A j \in 1..(i - 1) : ~SetsCompanion(action.model, Items[j])

\* C7: a create batch with an instance that holds a structured relation
\* without its foreign key fails with an ActionException and returns no
\* element; for that instance no id was reserved and no relations were
\* resolved; a batch without such an instance is not rejected, and each of
\* its instances gets an id and its relations resolved with the shortcut
C7_CreateNeedsBoth ==
    /\ (/\ result.op = "create" /\ result.payload.list
        /\ \E i \in 1..Len(Items) : LacksCompanion(action.model, Items[i]))
       => /\ result.exc
                = Exc("ActionException", "structured_both_required", "")
          /\ result.elements = <<>>
          /\ Len(result.log) = 2 * (FirstLacking - 1)
    /\ (/\ result.op = "create" /\ result.payload.list
        /\ \A i \in 1..Len(Items) : ~LacksCompanion(action.model, Items[i]))
       => /\ ~Failed
          /\ \A i \in 1..Len(Items) :
                /\ result.log[2 * i - 1].e = "reserve_id"
                /\ result.log[2 * i].e = "get_relations"
                /\ result.log[2 * i].flag
                /\ result.log[2 * i].fqid = result.log[2 * i - 1].fqid

\* an instance with both fields accepted, and the one behind it, whose
\* foreign key is None, rejected before anything was done for it
C7_Witness ==
    /\ result.op = "create"
    /\ Len(Items) = 2
    /\ SetsCompanion(action.model, Items[1])
    /\ Has(Items[2], "meeting_id") /\ LacksCompanion(action.model, Items[2])
    /\ result.exc.msg = "structured_both_required"
    /\ Len(result.log) = 2
    /\ result.log[1].e = "reserve_id"

\* C8: an update batch with an instance that holds a structured relation
\* and its foreign key, both set, returns no element, and fails with the
\* ActionException of that rule unless an instance failed before; a batch
\* without such an instance is not rejected by the rule, and every instance
\* that is reached is resolved without the shortcut
C8_UpdateForbidsBoth ==
    /\ (/\ result.op = "update" /\ result.payload.list
        /\ \E i \in 1..Len(Items) : SetsCompanion(action.model, Items[i]))
       => /\ Failed
          /\ result.elements = <<>>
          /\ \/ /\ result.exc
                      = Exc("ActionException", "structured_both_forbidden", "")
                /\ Len(result.log) = FirstSetting - 1
             \/ /\ result.exc.type = "TypeError"
                /\ \E j \in 1..FirstSetting : ~IsInt(Get(Items[j], "id"))
             \/ Len(result.data) < FirstSetting - 1
    /\ (/\ result.op = "update" /\ result.payload.list
        /\ \A i \in 1..Len(Items) : ~SetsCompanion(action.model, Items[i]))
       => /\ result.exc.msg # "structured_both_forbidden"
          /\ (IsInt(Get(Items[1], "id")) => Len(result.log) >= 1)
    /\ result.op = "update"
       => \A k \in 1..Len(result.log) :
             result.log[k]
                = Logged("get_relations", <<action.model, Items[k]["id"].v>>,
                         FieldNames(PresentRelationFields(action.model,
                                                          Items[k])),
                         FALSE, 0)

\* the structured relation set without the foreign key: accepted, resolved
\* without the shortcut, the reverse field rendered with the stored meeting
C8_Witness ==
    /\ result.op = "update" /\ ~Failed
    /\ Items[1] = (("id" :> PyInt(1))
                   @@ ("structured_relation_field" :> PyInt(1)))
    /\ ~result.log[1].flag
    /\ \E k \in 1..Len(result.elements[1].events) :
          /\ result.elements[1].events[k].fqid = <<A, 1>>
          /\ "fake_model_b_$222_ids"
                \in DOMAIN result.elements[1].events[k].fields

\* a payload that is no list, or an instance of it without an integer id
Malformed ==
    \/ ~result.payload.list
    \/ \E i \in 1..Len(Items) : ~IsInt(Get(Items[i], "id"))

\* a call that reads storage, performs a cascade or resolves relation
\* fields
Resolving(entry) ==
    \/ entry.e \in {"get", "perform"}
    \/ entry.e = "get_relations" /\ entry.fields # <<>>

\* C9 as the specification states it: an update or delete batch with a
\* malformed payload or instance fails with nothing read, cascaded or
\* resolved for any instance of the batch
C9_Original ==
    (result.op \in {"update", "delete"} /\ Malformed) =>
        /\ Failed
        /\ \A k \in 1..Len(result.log) : ~Resolving(result.log[k])

\* C10: the structured relation of a fake_model_b instance i set to the
\* object t, with the meeting m stored for i, resolves to two mutations of
\* t: its index field gains str(m), its field rendered with m gains i, and
\* the element modified is that single value
C10_StructuredRelationMutations ==
    (result.op = "update" /\ action.model = B) =>
        \A k \in 1..Len(result.data) :
            IsInt(Get(result.data[k].instance, "structured_relation_field"))
            => result.data[k].relations
                  = << Relation(
                          <<A,
                            result.data[k].instance[
                                "structured_relation_field"].v,
                            "fake_model_b_$_ids">>,
                          "add",
                          [t |-> "strlist",
                           v |-> << ToStr(db[<<B, result.data[k].instance[
                                        "id"].v>>]["meeting_id"].v) >>],
                          PyStr(ToStr(db[<<B, result.data[k].instance[
                                        "id"].v>>]["meeting_id"].v))),
                       Relation(
                          <<A,
                            result.data[k].instance[
                                "structured_relation_field"].v,
                            "fake_model_b_$"
                               \o ToStr(db[<<B, result.data[k].instance[
                                        "id"].v>>]["meeting_id"].v)
                               \o "_ids">>,
                          "add",
                          PyList(<< result.data[k].instance["id"].v >>),
                          PyInt(result.data[k].instance["id"].v)) >>

\* the scenario of test_simple_structured_relation with meeting 222
C10_Witness ==
    /\ result.op = "update" /\ action.model = B
    /\ Len(result.data) >= 1
    /\ result.data[1].instance
          = (("id" :> PyInt(1)) @@ ("structured_relation_field" :> PyInt(1)))
    /\ db[<<B, 1>>]["meeting_id"] = PyInt(MeetingId)
    /\ Len(result.data[1].relations) = 2
    /\ result.data[1].relations[1].value = [t |-> "strlist", v |-> <<"222">>]
    /\ result.data[1].relations[1].modified_element = PyStr("222")
    /\ result.data[1].relations[2].fqfield = <<A, 1, "fake_model_b_$222_ids">>
    /\ result.data[1].relations[2].modified_element = PyInt(1)

\* the object the first segment of fake_model_c's path leads to from the
\* stored object of instance i
IntermediateOf(i) == <<B, db[<<C, i>>]["foreign_key_field"].v>>

\* C11: the structured relation of a fake_model_c instance i, whose path
\* has two segments, set to the object t: the scoping value m is the
\* meeting_id stored for the fake_model_b object that the stored
\* foreign_key_field of i names, and the mutations are the two of a path of
\* one segment: the index field of t gains str(m), its field rendered with
\* m gains i
C11_NestedStructuredRelation ==
    (result.op = "update" /\ action.model = C) =>
        \A k \in 1..Len(result.data) :
            IsInt(Get(result.data[k].instance, "structured_relation_field"))
            => /\ Exists(IntermediateOf(result.data[k].instance["id"].v))
               /\ result.data[k].relations
                  = << Relation(
                          <<A,
                            result.data[k].instance[
                                "structured_relation_field"].v,
                            "fake_model_c_$_ids">>,
                          "add",
                          [t |-> "strlist",
                           v |-> << ToStr(db[IntermediateOf(
                                       result.data[k].instance["id"].v)][
                                       "meeting_id"].v) >>],
                          PyStr(ToStr(db[IntermediateOf(
                                       result.data[k].instance["id"].v)][
                                       "meeting_id"].v))),
                       Relation(
                          <<A,
                            result.data[k].instance[
                                "structured_relation_field"].v,
                            "fake_model_c_$"
                               \o ToStr(db[IntermediateOf(
                                       result.data[k].instance["id"].v)][
                                       "meeting_id"].v)
                               \o "_ids">>,
                          "add",
                          PyList(<< result.data[k].instance["id"].v >>),
                          PyInt(result.data[k].instance["id"].v)) >>

\* the scenario of test_nested_structured_relation: foreign_key_field of
\* the fake_model_c object names fake_model_b/1, whose meeting is 222
C11_Witness ==
    /\ result.op = "update" /\ action.model = C /\ ~Failed
    /\ result.data[1].instance
          = (("id" :> PyInt(1)) @@ ("structured_relation_field" :> PyInt(1)))
    /\ db[<<C, 1>>]["foreign_key_field"] = PyInt(1)
    /\ db[<<B, 1>>]["meeting_id"] = PyInt(MeetingId)
    /\ result.data[1].relations[1].fqfield = <<A, 1, "fake_model_c_$_ids">>
    /\ result.data[1].relations[1].modified_element = PyStr("222")
    /\ result.data[1].relations[2].fqfield = <<A, 1, "fake_model_c_$222_ids">>
    /\ result.data[1].relations[2].value = PyList(<<1>>)

\* the ids the sort was given, the meeting it was given, and the sections
\* stored for that meeting
SortNodes == Items[1]["motion_comment_section_ids"].v
SortScope ==
    {i \in 1..4 : db[<<Section, i>>]["meeting_id"] = Items[1]["meeting_id"]}
IsPermutationOfScope ==
    /\ SeqToSet(SortNodes) = SortScope
    /\ Len(SortNodes) = Cardinality(SortScope)

\* C12: a sort of one instance succeeds exactly when its nodes are a
\* permutation of the sections stored for its meeting; it then yields, in
\* the order of the nodes, one update instance per node whose weight is the
\* position of the node, counted from 1; otherwise it fails and yields no
\* update instance and no element
C12_LinearSort ==
    (result.op = "sort" /\ Len(Items) = 1) =>
        /\ ~Failed <=> IsPermutationOfScope
        /\ ~Failed =>
              /\ Len(result.data) = Len(SortNodes)
              /\ \A k \in 1..Len(SortNodes) :
                    /\ result.data[k].instance
                          = (("id" :> PyInt(SortNodes[k]))
                             @@ ("weight" :> PyInt(k)))
                    /\ result.elements[k].events
                          = << Event("update", <<Section, SortNodes[k]>>,
                                     "weight" :> PyInt(k)) >>
        /\ Failed => result.data = <<>> /\ result.elements = <<>>

\* the three sections of meeting 5, stored with the weights that order them
\* 3, 2, 1, sorted as 1, 2, 3
C12_Witness ==
    /\ result.op = "sort" /\ ~Failed
    /\ Items[1]["meeting_id"] = PyInt(5)
    /\ SortNodes = <<1, 2, 3>>
    /\ result.data[3].instance = (("id" :> PyInt(3)) @@ ("weight" :> PyInt(3)))

\* C13 as the specification states it: whatever a delete action object
\* performed before, the batch returns what an action object that performed
\* nothing before returns for it
C13_Original ==
    result.op = "delete" =>
        result.elements
           = DeletePerform(action.model, result.payload, result.user_id,
                           <<>>, 1).elements

\* the object a delete at the depth of log entry k is deleting: an instance
\* of the payload at depth 1, below that the target of the cascade that was
\* performed last one level up
DeletingAt(k, fqid) ==
    IF result.log[k].depth = 1
    THEN \E i \in 1..Len(Items) :
            Has(Items[i], "id") /\ fqid = <<action.model, Items[i]["id"].v>>
    ELSE \E j \in 1..(k - 1) :
            /\ result.log[j].e = "perform"
            /\ result.log[j].depth = result.log[k].depth - 1
            /\ result.log[j].fqid = fqid
            /\ \A l \in (j + 1)..(k - 1) :
                  ~(/\ result.log[l].e = "perform"
                    /\ result.log[l].depth = result.log[k].depth - 1)

\* C14: every read of storage that the delete preparer makes is a locking
\* read of one field, a PROTECT or CASCADE field of the object being
\* deleted; a cascade is performed, and a PROTECT failure is raised, only
\* after the read of its field; no SET_NULL field is read
C14_LockingReads ==
    result.op = "delete" =>
        /\ \A k \in 1..Len(result.log) :
              result.log[k].e = "get" =>
                 /\ result.log[k].flag
                 /\ Len(result.log[k].fields) = 1
                 /\ \E f \in PolicyFields(result.log[k].fqid[1], PROTECT)
                           \cup PolicyFields(result.log[k].fqid[1], CASCADE) :
                       result.log[k].fields = <<f.name>>
                 /\ DeletingAt(k, result.log[k].fqid)
        /\ \A k \in 1..Len(result.log) :
              result.log[k].e = "perform" =>
                 \E j \in 1..(k - 1) :
                    /\ result.log[j].e = "get"
                    /\ result.log[j].flag
                    /\ result.log[j].depth = result.log[k].depth
                    /\ \E f \in PolicyFields(result.log[j].fqid[1], CASCADE) :
                          /\ result.log[j].fields = <<f.name>>
                          /\ InSeq(result.log[k].fqid,
                                   TargetsOf(f, Get(db[result.log[j].fqid],
                                                    f.name)))
        /\ result.exc.msg = "protect" =>
              /\ Len(result.log) >= 1
              /\ ProtectedRead(result.log[Len(result.log)])
              /\ result.log[Len(result.log)].flag

\* a delete that read a CASCADE field and a PROTECT field of the payload
\* instance and a CASCADE field two levels down, for an instance that
\* stores a value in its SET_NULL field c_id
C14_Witness ==
    /\ result.op = "delete" /\ ~Failed
    /\ Items = << "id" :> PyInt(1) >>
    /\ Truthy(Get(db[<<A, 1>>], "c_id"))
    /\ \E k \in 1..Len(result.log) :
          /\ result.log[k].e = "get" /\ result.log[k].depth = 3
          /\ result.log[k].fields = <<"content_object_id">>
    /\ \E k \in 1..Len(result.log) :
          /\ result.log[k].e = "get" /\ result.log[k].depth = 1
          /\ result.log[k].fields = <<"protected_c_ids">>

\* a read the delete made of a CASCADE field of a stored object
CascadeRead(k) ==
    /\ result.log[k].e = "get"
    /\ Exists(result.log[k].fqid)
    /\ \E f \in PolicyFields(result.log[k].fqid[1], CASCADE) :
          result.log[k].fields = <<f.name>>

\* the FQIDs stored in the field that log entry k read
ReadTargets(k) ==
    LET f == CHOOSE f \in PolicyFields(result.log[k].fqid[1], CASCADE) :
                result.log[k].fields = <<f.name>>
    IN  TargetsOf(f, Get(db[result.log[k].fqid], f.name))

\* the cascades performed for the field that log entry k read: the perform
\* entries of its depth that follow it with nothing but nested entries and
\* other cascades of the field in between
PerformsOf(k) ==
    {j \in (k + 1)..Len(result.log) :
        /\ result.log[j].e = "perform"
        /\ result.log[j].depth = result.log[k].depth
        /\ \A l \in (k + 1)..(j - 1) :
              \/ result.log[l].depth > result.log[k].depth
              \/ result.log[l].e = "perform"}

\* the position of j among the indexes S
RankIn(S, j) == Cardinality({i \in S : i <= j})

\* the cascades the batch itself performed, and the elements they added to
\* the side buffer
TopPerforms == {j \in 1..Len(result.log) :
                   result.log[j].e = "perform" /\ result.log[j].depth = 1}
NewlyBuffered ==
    SubSeq(additional_write_requests, Len(result.buffer_before) + 1,
           Len(additional_write_requests))

\* C15: for a CASCADE field the delete action of every stored target is
\* performed, in stored order, for that one target (the delete it performs
\* works on the target first) and with the acting user,
\* and the element it returns is added to the side buffer; a target whose
\* collection has no delete action fails the batch with an ActionException
\* that names the collection, no element returned, the cascades performed
\* before it notwithstanding
C15_CascadeInvocation ==
    result.op = "delete" =>
        /\ \A k \in 1..Len(result.log) :
              CascadeRead(k) =>
                 /\ Cardinality(PerformsOf(k)) <= Len(ReadTargets(k))
                 /\ ~Failed =>
                       Cardinality(PerformsOf(k)) = Len(ReadTargets(k))
                 /\ \A j \in PerformsOf(k) :
                       /\ result.log[j].fqid
                             = ReadTargets(k)[RankIn(PerformsOf(k), j)]
                       /\ result.log[j].fqid[1] \in actions_map
                       /\ result.log[j].depth < MaxDepth =>
                             /\ j < Len(result.log)
                             /\ result.log[j + 1].depth
                                   = result.log[j].depth + 1
                             /\ result.log[j + 1].fqid = result.log[j].fqid
                 /\ \A i \in 1..Len(ReadTargets(k)) :
                       ReadTargets(k)[i][1] \notin actions_map =>
                          /\ result.exc = Exc("ActionException",
                                              "no_delete_action",
                                              ReadTargets(k)[i][1])
                          /\ result.elements = <<>>
        /\ SubSeq(additional_write_requests, 1, Len(result.buffer_before))
              = result.buffer_before
        /\ Len(NewlyBuffered) <= Cardinality(TopPerforms)
        /\ ~Failed => Len(NewlyBuffered) = Cardinality(TopPerforms)
        /\ \A j \in TopPerforms :
              RankIn(TopPerforms, j) <= Len(NewlyBuffered) =>
                 /\ NewlyBuffered[RankIn(TopPerforms, j)].user_id
                       = result.user_id
                 /\ \E i \in 1..Len(NewlyBuffered[RankIn(TopPerforms, j)]
                                       .events) :
                       /\ NewlyBuffered[RankIn(TopPerforms, j)].events[i].type
                             = "delete"
                       /\ NewlyBuffered[RankIn(TopPerforms, j)].events[i].fqid
                             = result.log[j].fqid

\* a delete of fake_model_a/1 that cascaded to fake_model_b/2, whose element
\* was buffered, then to fake_model_b/1 and from there to fake_model_c/1,
\* which refers to an object of a collection without a delete action
C15_Witness ==
    /\ result.op = "delete"
    /\ Items = << "id" :> PyInt(1) >>
    /\ result.exc = Exc("ActionException", "no_delete_action", D)
    /\ result.elements = <<>>
    /\ Len(NewlyBuffered) = 1
    /\ Cardinality(TopPerforms) = 2
    /\ \E k \in 1..Len(result.log) :
          CascadeRead(k) /\ result.log[k].depth = 3

\* the names of the relation fields of a collection that have a structured
\* relation or a structured tag
StructuredNames(coll) ==
    {f.name : f \in {g \in SeqToSet(get_relation_fields(coll)) :
                        g.structured_relation # <<>> \/ g.structured_tag}}

\* C16: a delete leaves the structured fields alone, those of the cascaded
\* objects included: no read and no relation resolution names one, every
\* cascade performed belongs to the read of a CASCADE field that is not
\* structured, a PROTECT failure follows the read of such a PROTECT field,
\* and no instance of the dataset and no update event carries one
C16_StructuredFieldsSkipped ==
    result.op = "delete" =>
        /\ \A k \in 1..Len(result.log) :
              result.log[k].e \in {"get", "get_relations"} =>
                 SeqToSet(result.log[k].fields)
                    \cap StructuredNames(result.log[k].fqid[1]) = {}
        /\ \A j \in 1..Len(result.log) :
              result.log[j].e = "perform" =>
                 \E k \in 1..(j - 1) : CascadeRead(k) /\ j \in PerformsOf(k)
        /\ result.exc.msg = "protect" =>
              ProtectedRead(result.log[Len(result.log)])
        /\ \A i \in 1..Len(result.data) :
              DOMAIN result.data[i].instance
                 \cap StructuredNames(action.model) = {}
        /\ \A i \in 1..Len(EventsIn(result.elements)) :
              EventsIn(result.elements)[i].type = "update" =>
                 DOMAIN EventsIn(result.elements)[i].fields
                    \cap StructuredNames(EventsIn(result.elements)[i].fqid[1])
                 = {}

\* the delete of fake_model_a/2, which cascades to fake_model_b/2, whose
\* structured PROTECT relation stores fake_model_a/2, and on to
\* fake_model_c/2, whose structured CASCADE relation stores fake_model_a/1:
\* it succeeds with the three deletes, fake_model_a/1 left alone
C16_Witness ==
    /\ result.op = "delete" /\ ~Failed
    /\ Items = << "id" :> PyInt(2) >>
    /\ result.buffer_before = <<>>
    /\ Truthy(Get(db[<<B, 2>>], "structured_relation_field"))
    /\ Truthy(Get(db[<<C, 2>>], "structured_relation_field"))
    /\ \E k \in 1..Len(result.log) :
          result.log[k].e = "perform" /\ result.log[k].fqid = <<C, 2>>
    /\ \A k \in 1..Len(result.log) : result.log[k].fqid # <<A, 1>>
    /\ DeleteCount(EventsIn(result.elements)) = 3

\* the events of a delete in the order of their arrival at the merge: those
\* of the side buffer, then for every instance of the dataset its delete
\* event and the events of its relations
Arrival ==
    EventsIn(additional_write_requests)
    \o EventsIn([i \in 1..Len(result.data) |->
                  ElementOf(
                     delete_action_create_instance_write_request_element(
                        action.model, result.data[i], result.user_id),
                     result.data[i].relations, result.user_id)])

OfType(events, type) == SelectSeq(events, LAMBDA ev : ev.type = type)

\* C17: in the element a delete returns, the events of one kind stand in
\* the order of their arrival: buffered elements first, in the order in
\* which the cascades were performed, then the direct elements in payload
\* order
C17_ArrivalOrderWithinKind ==
    (result.op = "delete" /\ ~Failed) =>
        /\ \A type \in {"create", "update", "delete"} :
              OfType(result.elements[1].events, type) = OfType(Arrival, type)
        /\ Len(result.elements[1].events) = Len(Arrival)
        /\ \A i \in 1..Len(result.data) :
              result.data[i].instance["id"] = Items[i]["id"]
        /\ \A i, j \in TopPerforms :
              i < j =>
                 \E m, n \in 1..Len(Arrival) :
                    /\ m < n
                    /\ Arrival[m] = Event("delete", result.log[i].fqid,
                                          EmptyDict)
                    /\ Arrival[n] = Event("delete", result.log[j].fqid,
                                          EmptyDict)

\* a delete of two instances on an action object whose buffer held an
\* element: several updates and several deletes arrive, and the order
\* returned is not the order of arrival
C17_Witness ==
    /\ result.op = "delete" /\ ~Failed
    /\ Len(Items) = 2
    /\ result.buffer_before # <<>>
    /\ Cardinality(TopPerforms) >= 2
    /\ Len(OfType(Arrival, "update")) >= 2
    /\ Len(OfType(Arrival, "delete")) >= 2
    /\ result.elements[1].events # Arrival

C19_Original ==
    (/\ result.op = "delete" /\ ~Failed
     /\ Len(Items) = 1
     /\ result.buffer_before = <<>>)
    => \A i, j \in 1..Len(result.elements[1].events) :
          (/\ i < j
           /\ result.elements[1].events[i].type = "delete"
           /\ result.elements[1].events[j].type = "delete")
          => result.elements[1].events[i].fqid
                # result.elements[1].events[j].fqid

====
